---- MODULE Spec2Model ----
(***************************************************************************)
(* EpsillaSink: the Epsilla sink connector of NeumAI                       *)
(* (neumai/SinkConnectors/EpsillaSink.py).                                 *)
(*                                                                         *)
(* The connector holds no state of its own between calls; every operation  *)
(* opens a client and issues requests to the Epsilla backend.  The state   *)
(* of the model is the remote database (tables, dim, rows), the position   *)
(* of every caller inside the operation it is running (pc, batch), the     *)
(* outcome of the operation it last finished (result) and the history of   *)
(* the requests that operation issued (reqs, mutated).                     *)
(*                                                                         *)
(* The backend is a network peer outside the repository.  It is modelled   *)
(* by what the connector can observe: each request returns status 200 or   *)
(* another status, chosen by the environment; a request that does not      *)
(* return 200 has no effect; a request can return 200 only when the        *)
(* backend can serve it (the table exists, the vector lengths match the    *)
(* table's dimensionality).                                                *)
(***************************************************************************)
EXTENDS Integers, Sequences, FiniteSets, TLC

\* ------------------------------------------------------------------------
\* Bounds of the model
\* ------------------------------------------------------------------------
MaxBatch == 2
MaxK == 2
MaxMsg == 3

Callers == {"c1", "c2"}
SeqCallers == {"c1"}
Ids == {"a", "b"}
FileIds == {"f1", "f2"}
Dims == {1, 2}
Digits == {"0", "5"}
Alphabet == Digits \cup {" "}

\* ------------------------------------------------------------------------
\* Program constants
\* ------------------------------------------------------------------------
HTTP_OK == 200
\* def _extract_numbers(input_string): one positional parameter, no self
ExtractNumbersParams == 1
\* self._extract_numbers(response["message"]): the bound call passes self
\* and the message
ExtractNumbersCallArgs == 2

StatusCodes == {HTTP_OK, 500}
OpenOutcomes == {"ok", "raise"}
\* self.table_name, and a table of the same database the connector ignores
TableName == "neum"
OtherTable == "other"

\* ------------------------------------------------------------------------
\* NeumVector: id, vector, metadata
\* ------------------------------------------------------------------------
\* One vector per length: the connector reads only len(vector), the backend
\* only compares it with the table's dimensionality.
Vec(d) == [i \in 1..d |-> i]
Vectors == {Vec(d) : d \in Dims}

\* metadata is None, an empty mapping, or a mapping holding the key
\* "_file_entry_id" with value fid (fid = "" is a falsy value).
NoneMeta == [kind |-> "None", fid |-> ""]
EmptyMeta == [kind |-> "empty", fid |-> ""]
MapMeta(f) == [kind |-> "map", fid |-> f]
Metas == {NoneMeta, EmptyMeta} \cup {MapMeta(f) : f \in FileIds \cup {""}}

NeumVector == [id : Ids, vector : Vectors, metadata : Metas]
BatchesUpTo(n) == UNION {[1..m -> NeumVector] : m \in 1..n}
Batches == BatchesUpTo(MaxBatch)
ConcBatches == BatchesUpTo(1)

\* ------------------------------------------------------------------------
\* _extract_numbers: [int(match) for match in findall(r'\d+', input_string)]
\* A string is a sequence of one-character strings.
\* ------------------------------------------------------------------------
DigitValue(ch) == CASE ch = "0" -> 0 [] ch = "5" -> 5
MessagesUpTo(n) == UNION {[1..m -> Alphabet] : m \in 0..n}
Messages == MessagesUpTo(MaxMsg)
ConcMessages == MessagesUpTo(1)

RECURSIVE ScanDigits(_, _, _, _, _)
ScanDigits(s, i, cur, inRun, acc) ==
    IF i > Len(s)
    THEN IF inRun THEN Append(acc, cur) ELSE acc
    ELSE IF s[i] \in Digits
         THEN ScanDigits(s, i + 1, cur * 10 + DigitValue(s[i]), TRUE, acc)
         ELSE ScanDigits(s, i + 1, 0, FALSE,
                         IF inRun THEN Append(acc, cur) ELSE acc)

ExtractNumbers(s) == ScanDigits(s, 1, 0, FALSE, <<>>)

\* ------------------------------------------------------------------------
\* store(): encoding of the batch (lines 102-110)
\* ------------------------------------------------------------------------
\* vec.metadata["_file_entry_id"]: None is not subscriptable, a mapping
\* without the key raises KeyError.
EncodeError(vec) ==
    IF vec.metadata.kind = "None" THEN "TypeError"
    ELSE IF vec.metadata.kind = "empty" THEN "KeyError"
    ELSE "none"

\* (variant: the promoted column is taken from the id)
EncodeRecordLiftId(vec) ==
    [id |-> vec.id,
     vector |-> vec.vector,
     metadata |-> IF vec.metadata.kind = "map" THEN vec.metadata ELSE EmptyMeta,
     file_entry_id |-> vec.id]

EncodeRecord(vec) ==
    [id |-> vec.id,
     vector |-> vec.vector,
     metadata |-> IF vec.metadata.kind = "map" THEN vec.metadata ELSE EmptyMeta,
     file_entry_id |-> IF vec.metadata.fid # "" THEN vec.metadata.fid ELSE ""]

\* The loop raises at the first record it cannot encode.
BadIndexes(b) == {i \in 1..Len(b) : EncodeError(b[i]) # "none"}
FirstBad(b) == CHOOSE i \in BadIndexes(b) : \A j \in BadIndexes(b) : i <= j
\* (variant: the loop skips the first record)
DatasSkipFirst(b) == [i \in 1..(Len(b) - 1) |-> EncodeRecord(b[i + 1])]
Datas(b) == [i \in 1..Len(b) |-> EncodeRecord(b[i])]

\* (variant: the last record's length)
CreateDimensionsLast(b) == Len(b[Len(b)].vector)
\* dimensions = len(vectors_to_store[0].vector)
CreateDimensions(b) == Len(b[1].vector)

\* ------------------------------------------------------------------------
\* State
\* ------------------------------------------------------------------------
VARIABLES
    tables,        \* names of the tables of the remote database
    dim,           \* dimensionality of the vector field of TableName (0: none)
    rows,          \* records of TableName
    pc,            \* per caller: "idle", "create", "insert" (inside store), "done"
    batch,         \* per caller: vectors_to_store of the store() in progress
    result,        \* per caller: outcome of the operation that finished last
    reqs,          \* per caller: backend requests issued by the current operation
    mutated,       \* per caller: requests of the current operation that changed the remote state
    config         \* the connector's fields: project_id, api_key, db_id, table_name

vars == <<tables, dim, rows, pc, batch, result, reqs, mutated, config>>
remote == <<tables, dim, rows>>

Res(op, args, outcome, stage, status, response, value) ==
    [op |-> op, args |-> args, outcome |-> outcome, stage |-> stage,
     status |-> status, response |-> response, value |-> value]
NoResult == Res("none", <<>>, "none", "none", 0, <<>>, <<>>)

Init ==
    /\ tables = {OtherTable}
    /\ dim = 0
    /\ rows = {}
    /\ pc = [c \in Callers |-> "idle"]
    /\ batch = [c \in Callers |-> <<>>]
    /\ result = [c \in Callers |-> NoResult]
    /\ reqs = [c \in Callers |-> <<>>]
    /\ mutated = [c \in Callers |-> {}]
    /\ config = [project_id |-> "project", api_key |-> "key", db_id |-> "db",
                 table_name |-> TableName]

\* ------------------------------------------------------------------------
\* The backend, as the connector's requests see it
\* ------------------------------------------------------------------------
Min(a, b) == IF a < b THEN a ELSE b

\* insert: a batch can be accepted only into an existing table whose
\* dimensionality every vector matches.
InsertServable(ds) ==
    /\ TableName \in tables
    /\ \A i \in 1..Len(ds) : Len(ds[i].vector) = dim

\* id is the primary key: a record whose id is already present either
\* replaces the stored one or is dropped, at the backend's discretion.
DupPolicies == {"replace", "keep"}
RECURSIVE ApplyInsert(_, _, _)
ApplyInsert(rs, ds, pol) ==
    IF ds = <<>> THEN rs
    ELSE LET d == Head(ds)
             clash == {r \in rs : r.id = d.id}
         IN ApplyInsert(IF clash = {} THEN rs \cup {d}
                        ELSE IF pol = "replace" THEN (rs \ clash) \cup {d}
                        ELSE rs,
                        Tail(ds), pol)

\* query: the limit best matches, in an order the backend chooses.
QueryServable(v) == TableName \in tables /\ Len(v) = dim
Orderings(S, n) ==
    {s \in [1..n -> S] : \A i, j \in 1..n : i # j => s[i] # s[j]}
QueryResponses(rs, limit) ==
    {[i \in 1..Len(s) |-> [id |-> s[i].id, vector |-> s[i].vector,
                           metadata |-> s[i].metadata, distance |-> i]] :
        s \in Orderings(rs, Min(limit, Cardinality(rs)))}

\* get: every record of the table.
GetResponse(rs) == CHOOSE s \in Orderings(rs, Cardinality(rs)) : TRUE

\* delete: the records the filter expression <<field, "=", text>> selects.
FilterMatches(row, flt) == flt[2] = "=" /\ row[flt[1]] = flt[3]
ApplyDelete(rs, flt) == {r \in rs : ~FilterMatches(r, flt)}

\* ------------------------------------------------------------------------
\* Pieces of the connector's operations
\* ------------------------------------------------------------------------
\* (variant: creates only in an empty database)
NeedsCreateWhenEmpty(listing) == listing = {}
\* if table_name not in response["result"]
NeedsCreate(listing) == TableName \notin listing

\* return self._extract_numbers(response["message"])
StoreReturn(msg) ==
    IF ExtractNumbersCallArgs = ExtractNumbersParams
    THEN [outcome |-> "ok", value |-> ExtractNumbers(msg)]
    ELSE [outcome |-> "TypeError", value |-> <<>>]

\* (variant: off by one)
QueryLimitPlusOne(k) == k + 1
\* limit=number_of_results
QueryLimit(k) == k

\* matches.append(NeumSearchResult(id, vector, metadata, score=@distance))
Matches(resp) ==
    [i \in 1..Len(resp) |-> [id |-> resp[i].id, vector |-> resp[i].vector,
                             metadata |-> resp[i].metadata,
                             score |-> resp[i].distance]]

\* number_vectors_stored=len(response["result"])
InfoCount(resp) == Len(resp)

\* (variant: the argument is not interpolated)
FilterExprFixed(file_id) == <<"file_entry_id", "=", "f1">>
\* filter=f"file_entry_id = {file_id}"
FilterExpr(file_id) == <<"file_entry_id", "=", file_id>>

\* (variant: validate() is not awaited inside the try)
ValidationOutcomeClientOnly(clientOk, validateOk) ==
    IF clientOk THEN "ok" ELSE "EpsillaConnectionException"
\* try: Client(...); client.validate()  except Exception: raise
\* EpsillaConnectionException;  return True
ValidationOutcome(clientOk, validateOk) ==
    IF clientOk /\ validateOk THEN "ok" ELSE "EpsillaConnectionException"

Finish(c, r) ==
    /\ pc' = [pc EXCEPT ![c] = "done"]
    /\ result' = [result EXCEPT ![c] = r]
    /\ batch' = [batch EXCEPT ![c] = <<>>]

\* ------------------------------------------------------------------------
\* store(vectors_to_store), one action per backend request (lines 84-115)
\* ------------------------------------------------------------------------
\* db = self._get_db(); status_code, response = db.list_tables()
StoreList(c, inputs) ==
    /\ pc[c] = "idle"
    /\ UNCHANGED config
    /\ \E open \in OpenOutcomes, st \in StatusCodes :
         IF open = "raise"
         THEN /\ Finish(c, Res("store", <<>>, "Exception", "open", 0, <<>>, <<>>))
              /\ reqs' = [reqs EXCEPT ![c] = <<>>]
         ELSE /\ reqs' = [reqs EXCEPT ![c] = <<"list_tables">>]
              /\ IF st # HTTP_OK
                 THEN Finish(c, Res("store", <<>>, "EpsillaInsertionException",
                                    "list", st, <<>>, <<>>))
                 ELSE /\ pc' = [pc EXCEPT ![c] =
                                  IF NeedsCreate(tables) THEN "create" ELSE "insert"]
                      /\ \E b \in inputs : batch' = [batch EXCEPT ![c] = b]
                      /\ result' = [result EXCEPT ![c] = NoResult]
    /\ mutated' = [mutated EXCEPT ![c] = {}]
    /\ UNCHANGED <<tables, dim, rows>>

\* status_code, response = db.create_table(table_name, table_fields=[...])
\* A create request for a table that exists meanwhile is refused, or
\* accepted without effect, at the backend's discretion.
StoreCreate(c) ==
    /\ pc[c] = "create"
    /\ UNCHANGED config
    /\ reqs' = [reqs EXCEPT ![c] = Append(@, "create_table")]
    /\ \E st \in StatusCodes :
         /\ IF st = HTTP_OK /\ TableName \notin tables
            THEN /\ tables' = tables \cup {TableName}
                 /\ dim' = CreateDimensions(batch[c])
                 /\ rows' = {}
                 /\ mutated' = [mutated EXCEPT ![c] = @ \cup {"create_table"}]
            ELSE UNCHANGED <<tables, dim, rows, mutated>>
         /\ IF st # HTTP_OK
            THEN Finish(c, Res("store", <<>>, "EpsillaInsertionException",
                               "create", st, <<>>, <<>>))
            ELSE /\ pc' = [pc EXCEPT ![c] = "insert"]
                 /\ UNCHANGED <<batch, result>>

\* the encoding loop; status_code, response = db.insert(table_name, records);
\* return self._extract_numbers(response["message"])
StoreInsert(c, messages) ==
    /\ pc[c] = "insert"
    /\ UNCHANGED config
    /\ IF BadIndexes(batch[c]) # {}
       THEN /\ Finish(c, Res("store", <<>>, EncodeError(batch[c][FirstBad(batch[c])]),
                             "encode", HTTP_OK, <<>>, <<>>))
            /\ UNCHANGED <<tables, dim, rows, reqs, mutated>>
       ELSE /\ reqs' = [reqs EXCEPT ![c] = Append(@, "insert")]
            /\ \E st \in StatusCodes :
                 IF st = HTTP_OK
                 THEN /\ InsertServable(Datas(batch[c]))
                      /\ \E msg \in messages :
                           /\ rows' \in {ApplyInsert(rows, Datas(batch[c]), pol) :
                                             pol \in DupPolicies}
                           /\ Finish(c, Res("store", Datas(batch[c]), StoreReturn(msg).outcome,
                                            "return", st, msg, StoreReturn(msg).value))
                      /\ mutated' = [mutated EXCEPT ![c] =
                                       IF rows' # rows THEN @ \cup {"insert"} ELSE @]
                      /\ UNCHANGED <<tables, dim>>
                 ELSE /\ Finish(c, Res("store", Datas(batch[c]), "EpsillaInsertionException",
                                       "insert", st, <<>>, <<>>))
                      /\ UNCHANGED <<tables, dim, rows, mutated>>

\* ------------------------------------------------------------------------
\* search(vector, number_of_results, filter) (lines 117-148)
\* ------------------------------------------------------------------------
Filters == {"none", "some"}

\* (variant: search provisions the collection when it is absent)
SearchProvisioning(c, v, k, flt) ==
    /\ pc[c] = "idle"
    /\ tables' = tables \cup {TableName}
    /\ dim' = IF TableName \in tables THEN dim ELSE Len(v)
    /\ reqs' = [reqs EXCEPT ![c] = <<"create_table", "query">>]
    /\ Finish(c, Res("search", [vector |-> v, k |-> k], "EpsillaQueryException",
                     "query", 500, <<>>, <<>>))
    /\ mutated' = [mutated EXCEPT ![c] = {}]
    /\ UNCHANGED <<rows, config>>

Search(c, v, k, flt) ==
    /\ pc[c] = "idle"
    /\ UNCHANGED config
    /\ \E open \in OpenOutcomes, st \in StatusCodes :
         IF open = "raise"
         THEN /\ Finish(c, Res("search", [vector |-> v, k |-> k], "Exception",
                               "open", 0, <<>>, <<>>))
              /\ reqs' = [reqs EXCEPT ![c] = <<>>]
         ELSE /\ reqs' = [reqs EXCEPT ![c] = <<"query">>]
              /\ IF st = HTTP_OK
                 THEN /\ QueryServable(v)
                      /\ \E resp \in QueryResponses(rows, QueryLimit(k)) :
                           Finish(c, Res("search", [vector |-> v, k |-> k], "ok",
                                         "return", st, resp, Matches(resp)))
                 ELSE Finish(c, Res("search", [vector |-> v, k |-> k],
                                    "EpsillaQueryException", "query", st, <<>>, <<>>))
    /\ mutated' = [mutated EXCEPT ![c] = {}]
    /\ UNCHANGED <<tables, dim, rows>>

\* ------------------------------------------------------------------------
\* info() (lines 150-158)
\* ------------------------------------------------------------------------
Info(c) ==
    /\ pc[c] = "idle"
    /\ UNCHANGED config
    /\ \E open \in OpenOutcomes, st \in StatusCodes :
         IF open = "raise"
         THEN /\ Finish(c, Res("info", <<>>, "Exception", "open", 0, <<>>, <<>>))
              /\ reqs' = [reqs EXCEPT ![c] = <<>>]
         ELSE /\ reqs' = [reqs EXCEPT ![c] = <<"get">>]
              /\ IF st = HTTP_OK
                 THEN /\ TableName \in tables
                      /\ Finish(c, Res("info", <<>>, "ok", "return", st,
                                       GetResponse(rows), InfoCount(GetResponse(rows))))
                 ELSE Finish(c, Res("info", <<>>, "EpsillaIndexInfoException",
                                    "get", st, <<>>, <<>>))
    /\ mutated' = [mutated EXCEPT ![c] = {}]
    /\ UNCHANGED <<tables, dim, rows>>

\* ------------------------------------------------------------------------
\* delete_vectors_with_file_id(file_id) (lines 160-166)
\* ------------------------------------------------------------------------
DeleteVectorsWithFileId(c, f) ==
    /\ pc[c] = "idle"
    /\ UNCHANGED config
    /\ \E open \in OpenOutcomes, st \in StatusCodes :
         IF open = "raise"
         THEN /\ Finish(c, Res("delete", f, "Exception", "open", 0, <<>>, <<>>))
              /\ reqs' = [reqs EXCEPT ![c] = <<>>]
              /\ mutated' = [mutated EXCEPT ![c] = {}]
              /\ UNCHANGED rows
         ELSE /\ reqs' = [reqs EXCEPT ![c] = <<"delete">>]
              /\ IF st = HTTP_OK
                 THEN /\ TableName \in tables
                      /\ rows' = ApplyDelete(rows, FilterExpr(f))
                      /\ mutated' = [mutated EXCEPT ![c] =
                                       IF rows' # rows THEN {"delete"} ELSE {}]
                      /\ Finish(c, Res("delete", f, "ok", "return", st, <<>>, TRUE))
                 ELSE /\ Finish(c, Res("delete", f, "EpsillaInsertionException",
                                       "delete", st, <<>>, <<>>))
                      /\ mutated' = [mutated EXCEPT ![c] = {}]
                      /\ UNCHANGED rows
    /\ UNCHANGED <<tables, dim>>

\* ------------------------------------------------------------------------
\* validation() (lines 68-75)
\* ------------------------------------------------------------------------
Validation(c) ==
    /\ pc[c] = "idle"
    /\ UNCHANGED config
    /\ \E clientOk \in BOOLEAN :
       \E validateOk \in (IF clientOk THEN BOOLEAN ELSE {FALSE}) :
         \* client.validate() runs only on a constructed client
         /\ Finish(c, Res("validation", [clientOk |-> clientOk, validateOk |-> validateOk],
                          ValidationOutcome(clientOk, validateOk), "return", 0, <<>>,
                          ValidationOutcome(clientOk, validateOk) = "ok"))
         /\ reqs' = [reqs EXCEPT ![c] = IF clientOk THEN <<"validate">> ELSE <<>>]
    /\ mutated' = [mutated EXCEPT ![c] = {}]
    /\ UNCHANGED <<tables, dim, rows>>

\* The operation's result or exception has reached the caller; the connector
\* keeps nothing of the call.
Return(c) ==
    /\ pc[c] = "done"
    /\ UNCHANGED config
    /\ pc' = [pc EXCEPT ![c] = "idle"]
    /\ result' = [result EXCEPT ![c] = NoResult]
    /\ reqs' = [reqs EXCEPT ![c] = <<>>]
    /\ mutated' = [mutated EXCEPT ![c] = {}]
    /\ UNCHANGED <<tables, dim, rows, batch>>

\* ------------------------------------------------------------------------
\* Specifications
\* ------------------------------------------------------------------------
\* One caller: the operations run one after the other.
Next ==
    \E c \in SeqCallers :
        \/ StoreList(c, Batches)
        \/ StoreCreate(c)
        \/ StoreInsert(c, Messages)
        \/ \E v \in Vectors, k \in 1..MaxK, flt \in Filters : Search(c, v, k, flt)
        \/ Info(c)
        \/ \E f \in FileIds : DeleteVectorsWithFileId(c, f)
        \/ Validation(c)
        \/ Return(c)

Spec == Init /\ [][Next]_vars

\* Two callers share the collection; their backend requests interleave.
NextConc ==
    \E c \in Callers :
        \/ StoreList(c, ConcBatches)
        \/ StoreCreate(c)
        \/ StoreInsert(c, ConcMessages)
        \/ \E v \in Vectors, k \in 1..MaxK, flt \in Filters : Search(c, v, k, flt)
        \/ Info(c)
        \/ \E f \in FileIds : DeleteVectorsWithFileId(c, f)
        \/ Validation(c)
        \/ Return(c)

SpecConc == Init /\ [][NextConc]_vars

\* ------------------------------------------------------------------------
\* Properties
\* ------------------------------------------------------------------------
Issued(c, req) == \E i \in DOMAIN reqs[c] : reqs[c][i] = req
Finished(c, op) == pc[c] = "done" /\ result[c].op = op
\* caller c completes operation op in this step
Completes(c, op) == pc[c] # "done" /\ pc'[c] = "done" /\ result'[c].op = op

\* C1: a store() call in which a backend request (list tables, create
\* table, insert) returned a non-success status raised InsertionException
\* and left the remote state as it was before the call.
C1_FailedStoreChangesNothing ==
    \A c \in Callers :
        (Finished(c, "store") /\ result[c].status \notin {0, HTTP_OK})
            => /\ result[c].outcome = "EpsillaInsertionException"
               /\ mutated[c] = {}

\* C2: a store() call whose list, create and insert requests all returned
\* success returns normally, and returns the integers of the confirmation
\* message in order of appearance.
C2_StoreReturnsNumbers ==
    \A c \in Callers :
        (Finished(c, "store") /\ result[c].stage = "return")
            => /\ result[c].outcome = "ok"
               /\ result[c].value = ExtractNumbers(result[c].response)

\* C3: when the insert of a batch of records with a common vector length,
\* all carrying _file_entry_id, with ids that are distinct and not in the
\* collection, is accepted, the count info() reports grows by exactly the
\* batch size.
FreshIds(b, rs) ==
    /\ \A i, j \in 1..Len(b) : i # j => b[i].id # b[j].id
    /\ \A i \in 1..Len(b) : \A r \in rs : r.id # b[i].id
C4_DeleteRemovesFile ==
    [][\A c \in Callers :
         (Completes(c, "delete") /\ result'[c].outcome = "ok")
            => LET f == result'[c].args IN
               /\ \A r \in rows : r.metadata.fid = f => r \notin rows'
               /\ \A r \in rows : r.metadata.fid # f => r \in rows'
               /\ rows' \subseteq rows
               /\ \A k \in 1..MaxK : \A resp \in QueryResponses(rows', QueryLimit(k)) :
                    \A i \in 1..Len(resp) :
                        \A r \in rows : r.metadata.fid = f => Matches(resp)[i].id # r.id]_vars
\* a delete removed records and left others in place
C4_Witness ==
    \E c \in Callers :
        /\ Finished(c, "delete")
        /\ result[c].outcome = "ok"
        /\ mutated[c] = {"delete"}
        /\ \E r \in rows : r.metadata.fid # result[c].args

\* C5: over all interleavings of store() calls on an initially absent
\* collection, the collection is created exactly once: the create-table
\* request is issued at most once, so none is issued for a collection that
\* already exists, and no insert request is issued while the collection
\* does not exist.
C5_CreatedExactlyOnce ==
    [][\A c \in Callers :
         /\ (Issued(c, "create_table")' /\ ~Issued(c, "create_table"))
                => TableName \notin tables
         /\ (Issued(c, "insert")' /\ ~Issued(c, "insert"))
                => TableName \in tables]_vars

C7_SearchAtMostK ==
    [][\A c \in Callers :
         (Completes(c, "search") /\ result'[c].outcome = "ok")
            => LET r == result'[c] IN
               /\ Len(r.value) <= r.args.k
               /\ Len(r.value) = Len(r.response)
               /\ \A i \in 1..Len(r.value) :
                    /\ r.value[i].id = r.response[i].id
                    /\ r.value[i].score = r.response[i].distance
                    /\ \E row \in rows : row.id = r.value[i].id
               /\ Len(r.value) < r.args.k => Cardinality(rows) < r.args.k]_vars
\* a search was cut at k although the collection holds more
C7_Witness ==
    \E c \in Callers :
        /\ Finished(c, "search")
        /\ result[c].outcome = "ok"
        /\ Len(result[c].value) = result[c].args.k
        /\ Cardinality(rows) > result[c].args.k

\* C8: store() creates an absent collection with the vector length of the
\* batch's first record; the dimensionality of an existing collection never
\* changes; a store() with a record of another vector length fails and
\* inserts nothing.
C8_DimensionFixedAtCreation ==
    [][/\ \A c \in Callers :
            (pc[c] = "create" /\ TableName \notin tables /\ TableName \in tables')
                => dim' = Len(batch[c][1].vector)
       /\ TableName \in tables => (TableName \in tables' /\ dim' = dim)
       /\ \A c \in Callers :
            (/\ pc[c] = "insert"
             /\ Completes(c, "store")
             /\ \E i \in 1..Len(batch[c]) : Len(batch[c][i].vector) # dim)
                => (rows' = rows /\ result'[c].outcome # "ok")]_vars
\* the collection was created from the first record of a batch whose second
\* record has another length
C8_Witness ==
    \E c \in Callers :
        /\ pc[c] = "insert"
        /\ "create_table" \in mutated[c]
        /\ Len(batch[c]) > 1
        /\ dim = Len(batch[c][1].vector)
        /\ Len(batch[c][2].vector) # dim

\* C9: delete_vectors_with_file_id(f) returns true whenever the backend's
\* delete succeeds, matched or not; without a matching record the collection
\* is unchanged; a second call with the same f changes nothing more.
C9_DeleteIdempotent ==
    [][\A c \in Callers :
         Completes(c, "delete")
            => LET r == result'[c] IN
               /\ r.status = HTTP_OK => (r.outcome = "ok" /\ r.value = TRUE)
               /\ r.outcome # "ok" => rows' = rows
               /\ (\A row \in rows : row.file_entry_id # r.args) => rows' = rows
               /\ r.outcome = "ok" => ApplyDelete(rows', FilterExpr(r.args)) = rows']_vars
\* a delete that matched nothing succeeded on a collection with records
C9_Witness ==
    \E c \in Callers :
        /\ Finished(c, "delete")
        /\ result[c].outcome = "ok"
        /\ mutated[c] = {}
        /\ rows # {}

\* C10: every failure of the backend, the opening of the per-call client
\* included, reaches the caller as the exception type of the operation;
\* ConnectionException comes from validation() only; no request is issued
\* twice in one operation.
BackendStages == {"open", "list", "create", "insert", "query", "get", "delete"}
MatchingException(op) ==
    CASE op \in {"store", "delete"} -> "EpsillaInsertionException"
      [] op = "search" -> "EpsillaQueryException"
      [] op = "info" -> "EpsillaIndexInfoException"
      [] OTHER -> "EpsillaConnectionException"
C10_FailuresTranslated ==
    \A c \in Callers :
        /\ \A i, j \in DOMAIN reqs[c] : i # j => reqs[c][i] # reqs[c][j]
        /\ pc[c] = "done" =>
             /\ result[c].stage \in BackendStages
                    => result[c].outcome = MatchingException(result[c].op)
             /\ result[c].outcome = "EpsillaConnectionException"
                    => result[c].op = "validation"

\* C11: a store() of a batch in which some record's metadata is absent,
\* empty or without _file_entry_id fails before any insert request is
\* submitted and leaves the remote state as it was before the call.
C11_BadMetadataChangesNothing ==
    [][\A c \in Callers :
         (Completes(c, "store") /\ batch[c] # <<>> /\ BadIndexes(batch[c]) # {})
            => /\ result'[c].outcome # "ok"
               /\ ~Issued(c, "insert")'
               /\ mutated'[c] = {}]_vars

\* C12: within one store() the requests are list tables, then create table,
\* then insert; create is issued exactly when the listing succeeded and
\* lacks the collection; insert is issued only after a successful listing
\* and, if a create was issued, a successful create; a call whose requests
\* all succeed issues exactly one insert, carrying every record of the
\* batch in input order.
StoreRequestOrders ==
    {<<>>, <<"list_tables">>, <<"list_tables", "create_table">>,
     <<"list_tables", "insert">>, <<"list_tables", "create_table", "insert">>}
InStore(c) == pc[c] \in {"create", "insert"} \/ Finished(c, "store")
BatchInOrder(b) ==
    [i \in 1..Len(b) |-> [id |-> b[i].id, vector |-> b[i].vector,
                          metadata |-> b[i].metadata,
                          file_entry_id |-> b[i].metadata.fid]]
C12_RequestOrder ==
    [][\A c \in Callers :
         /\ InStore(c)' => reqs'[c] \in StoreRequestOrders
         \* the step that lists
         /\ (pc[c] = "idle" /\ InStore(c)' /\ Issued(c, "list_tables")')
                => /\ (pc'[c] = "create") <=>
                          (pc'[c] # "done" /\ config.table_name \notin tables)
                   /\ (pc'[c] = "insert") <=>
                          (pc'[c] # "done" /\ config.table_name \in tables)
         \* the step that issues create
         /\ (Issued(c, "create_table")' /\ ~Issued(c, "create_table"))
                => (pc[c] = "create" /\ reqs[c] = <<"list_tables">>)
         /\ (pc[c] = "create" /\ pc'[c] # "create") => Issued(c, "create_table")'
         /\ (pc[c] = "create" /\ pc'[c] = "insert") => config.table_name \in tables'
         \* the step that issues insert
         /\ (Issued(c, "insert")' /\ ~Issued(c, "insert"))
                => /\ pc[c] = "insert"
                   /\ config.table_name \in tables
                   /\ result'[c].args = BatchInOrder(batch[c])
         /\ (Completes(c, "store") /\ result'[c].stage = "return")
                => Cardinality({i \in DOMAIN reqs'[c] : reqs'[c][i] = "insert"}) = 1]_vars
\* a store() created the collection and inserted two records in one request
C12_Witness ==
    \E c \in Callers :
        /\ Finished(c, "store")
        /\ result[c].stage = "return"
        /\ reqs[c] = <<"list_tables", "create_table", "insert">>
        /\ Len(result[c].args) = 2
        /\ result[c].args[1].id # result[c].args[2].id

\* C13: search() and info() leave the remote state unchanged, whether they
\* return or raise, and no operation changes the connector's configuration.
C13_ReadOnly ==
    [][/\ \A c \in Callers :
            (Completes(c, "search") \/ Completes(c, "info")) => remote' = remote
       /\ config' = config]_vars
\* a search and an info have completed on a collection that holds records
C13_Witness ==
    \E c \in Callers :
        /\ Finished(c, "search") \/ Finished(c, "info")
        /\ result[c].outcome = "ok"
        /\ rows # {}

====
